---- MODULE Spec2Model ----
(***************************************************************************)
(* Model of splitter.py (FunctionSplitter and its command-line entry).     *)
(*                                                                         *)
(* Source text is a sequence of text chunks (keywords, identifiers,        *)
(* punctuation, "\n", one indentation unit); the file's characters are the *)
(* concatenation of its chunks.  Offsets are chunk indices, so             *)
(* ast.get_source_segment is SubSeq and str.replace is replacement of a    *)
(* chunk subsequence.  ast.dump is spelled out character by character in   *)
(* the format CPython 3.8 - 3.12 prints, because the usage test of         *)
(* _get_imports_for_node is a character substring test on it.              *)
(***************************************************************************)
EXTENDS Integers, Sequences, FiniteSets, TLC

\* ---------------------------------------------------------------- bounds
MaxStmts == 2      \* top-level items in the generated source file
MaxRuns == 2       \* invocations of the tool on the same file
Depth == 2         \* ancestor directories of the script path

\* ------------------------------------------------------- generic helpers
Min(S) == CHOOSE x \in S : \A y \in S : x <= y

Last(s) == s[Len(s)]

RECURSIVE Flatten(_)
Flatten(ss) == IF ss = <<>> THEN <<>> ELSE Head(ss) \o Flatten(Tail(ss))

\* needle occurs in hay at position i (1-based)
MatchAt(hay, needle, i) ==
  /\ i + Len(needle) - 1 <= Len(hay)
  /\ \A j \in 1..Len(needle) : hay[i + j - 1] = needle[j]

\* Python's `needle in hay` on strings
IsSubstring(needle, hay) == \E i \in 1..(Len(hay) + 1) : MatchAt(hay, needle, i)

\* Python's str.replace(old, new): every non-overlapping occurrence, scanning
\* left to right (old is never empty here)
RECURSIVE ReplaceFrom(_, _, _, _)
ReplaceFrom(s, old, new, i) ==
  IF i > Len(s) THEN <<>>
  ELSE IF MatchAt(s, old, i) THEN new \o ReplaceFrom(s, old, new, i + Len(old))
  ELSE <<s[i]>> \o ReplaceFrom(s, old, new, i + 1)

StrReplace(s, old, new) == ReplaceFrom(s, old, new, 1)

\* "\n".join(ss)
RECURSIVE JoinLines(_)
JoinLines(ss) ==
  IF ss = <<>> THEN <<>>
  ELSE IF Len(ss) = 1 THEN Head(ss)
  ELSE Head(ss) \o <<"\n">> \o JoinLines(Tail(ss))

\* ------------------------------------------------------------ source text
NL == "\n"
IND == "    "

Keywords == {"import", "as", "from", "def", "class", "pass"}
Idents == {"os", "numpy", "np", "json", "f", "k", "z", "C", "D", "m",
           "self", "this", "x", "y", "deco", "zeros"}
Strings == {"'numpy'"}
StrValue(c) == "numpy"

\* the top-level items a generated source file is made of
Items == <<
  <<"import", "os", NL>>,
  <<"import", "numpy", "as", "np", NL>>,
  <<"@", "deco", NL, "def", "f", "(", ")", ":", NL, IND, "np", ".", "zeros", NL>>,
  <<"def", "k", "(", ")", ":", NL, IND, "'numpy'", NL>>,
  <<"def", "z", "(", ")", ":", "pass", NL>>,
  <<"#", "def", "z", "(", ")", ":", "pass", NL>>,
  <<"class", "z", ":", "pass", NL>>,
  <<"class", "C", ":", NL,
    IND, "def", "m", "(", "self", ")", ":", NL,
    IND, IND, "import", "json", NL,
    IND, IND, "self", ".", "x", NL>>,
  <<"class", "D", ":", NL,
    IND, "def", "m", "(", "this", ")", ":", NL,
    IND, IND, "this", ".", "y", NL,
    IND, IND, "self", ".", "x", NL,
    IND, IND, "this", ".", "y", NL>> >>

Programs ==
  { Flatten([i \in DOMAIN pick |-> Items[pick[i]]]) :
      pick \in UNION { [1..n -> 1..Len(Items)] : n \in 1..MaxStmts } }

\* ---------------------------------------------------------- ast.parse
\* lines of a text: index of the first and last chunk of each line
LineEnd(text, i) ==
  LET S == { j \in i..Len(text) : text[j] = NL }
  IN IF S = {} THEN Len(text) + 1 ELSE Min(S)

RECURSIVE LinesFrom(_, _)
LinesFrom(text, i) ==
  IF i > Len(text) THEN <<>>
  ELSE LET e == LineEnd(text, i)
       IN <<[first |-> i, last |-> e - 1]>> \o LinesFrom(text, e + 1)

Indent(text, l) ==
  Cardinality({ j \in l.first..l.last : \A k \in l.first..j : text[k] = IND })

Toks(text, l) == SubSeq(text, l.first + Indent(text, l), l.last)

\* blank lines and comment lines produce no statement
Blank(text, l) == LET t == Toks(text, l) IN t = <<>> \/ t[1] = "#"

Node(type, start, end) ==
  [type |-> type, name |-> "", asname |-> "", module |-> "", level |-> 0,
   arg |-> "", body |-> <<>>, decorator_list |-> <<>>,
   id |-> "", attr |-> "", start |-> start, end |-> end]

NoNode == Node("", 0, 0)
Err == [ok |-> FALSE, node |-> NoNode, nodes |-> <<>>, next |-> 0]
Ok1(n, next) == [ok |-> TRUE, node |-> n, nodes |-> <<>>, next |-> next]
OkN(ns, next) == [ok |-> TRUE, node |-> NoNode, nodes |-> ns, next |-> next]

\* a simple statement whose chunks are t, the first at offset s
ParseSimple(t, s) ==
  LET e == s + Len(t) - 1
      n == Len(t)
  IN IF t = <<"pass">> THEN Ok1(Node("Pass", s, e), 0)
     ELSE IF n = 2 /\ t[1] = "import" /\ t[2] \in Idents
       THEN Ok1([Node("Import", s, e) EXCEPT !.name = t[2]], 0)
     ELSE IF n = 4 /\ t[1] = "import" /\ t[2] \in Idents /\ t[3] = "as" /\ t[4] \in Idents
       THEN Ok1([Node("Import", s, e) EXCEPT !.name = t[2], !.asname = t[4]], 0)
     ELSE IF n = 4 /\ t[1] = "from" /\ t[2] \in Idents /\ t[3] = "import" /\ t[4] \in Idents
       THEN Ok1([Node("ImportFrom", s, e) EXCEPT !.module = t[2], !.name = t[4]], 0)
     ELSE IF n = 5 /\ t[1] = "from" /\ t[2] = "." /\ t[3] \in Idents /\ t[4] = "import"
             /\ t[5] \in Idents
       THEN Ok1([Node("ImportFrom", s, e) EXCEPT !.module = t[3], !.name = t[5],
                                                 !.level = 1], 0)
     ELSE IF n = 1 /\ t[1] \in Idents
       THEN Ok1([Node("Name", s, e) EXCEPT !.id = t[1]], 0)
     ELSE IF n = 1 /\ t[1] \in Strings
       THEN Ok1([Node("Constant", s, e) EXCEPT !.id = StrValue(t[1])], 0)
     ELSE IF n = 3 /\ t[1] \in Idents /\ t[2] = "." /\ t[3] \in Idents
       THEN Ok1([Node("Attribute", s, e) EXCEPT !.id = t[1], !.attr = t[3]], 0)
     ELSE Err

\* length of a def / class header in chunks, 0 when t is not such a header
HeaderLen(t) ==
  IF Len(t) >= 5 /\ t[1] = "def" /\ t[2] \in Idents /\ t[3] = "(" /\ t[4] = ")" /\ t[5] = ":"
    THEN 5
  ELSE IF Len(t) >= 6 /\ t[1] = "def" /\ t[2] \in Idents /\ t[3] = "(" /\ t[4] \in Idents
          /\ t[5] = ")" /\ t[6] = ":"
    THEN 6
  ELSE IF Len(t) >= 3 /\ t[1] = "class" /\ t[2] \in Idents /\ t[3] = ":"
    THEN 3
  ELSE 0

RECURSIVE ParseBlock(_, _, _, _)
RECURSIVE ParseStmt(_, _, _, _, _)

\* the statement that starts on line i at indentation ind; decos are the
\* decorators read so far.  A def / class node starts at its `def` / `class`
\* keyword (not at its first decorator) and ends with its last statement.
ParseStmt(text, L, i, ind, decos) ==
  LET l == L[i]
      t == Toks(text, l)
      s == l.first + ind
      h == HeaderLen(t)
      hdr == [Node(IF t[1] = "def" THEN "FunctionDef" ELSE "ClassDef", s, l.last)
                EXCEPT !.name = t[2], !.decorator_list = decos,
                       !.arg = IF h = 6 THEN t[4] ELSE ""]
  IN IF Len(t) = 2 /\ t[1] = "@" /\ t[2] \in Idents
       THEN IF i + 1 <= Len(L) /\ ~Blank(text, L[i + 1]) /\ Indent(text, L[i + 1]) = ind
              THEN ParseStmt(text, L, i + 1, ind,
                             Append(decos, [id |-> t[2], start |-> s + 1, end |-> s + 1]))
              ELSE Err
     ELSE IF h > 0 /\ Len(t) > h
       THEN LET b == ParseSimple(SubSeq(t, h + 1, Len(t)), s + h)
            IN IF b.ok THEN Ok1([hdr EXCEPT !.body = <<b.node>>], i + 1) ELSE Err
     ELSE IF h > 0
       THEN LET b == ParseBlock(text, L, i + 1, ind + 1)
            IN IF b.ok /\ b.nodes # <<>>
                 THEN Ok1([hdr EXCEPT !.body = b.nodes, !.end = Last(b.nodes).end], b.next)
                 ELSE Err
     ELSE IF decos # <<>> THEN Err
     ELSE LET b == ParseSimple(t, s)
          IN IF b.ok THEN Ok1(b.node, i + 1) ELSE Err

\* the statements at indentation ind from line i on
ParseBlock(text, L, i, ind) ==
  IF i > Len(L) THEN OkN(<<>>, i)
  ELSE IF Blank(text, L[i]) THEN ParseBlock(text, L, i + 1, ind)
  ELSE IF Indent(text, L[i]) < ind THEN OkN(<<>>, i)
  ELSE IF Indent(text, L[i]) > ind THEN Err
  ELSE LET st == ParseStmt(text, L, i, ind, <<>>)
       IN IF ~st.ok THEN Err
          ELSE LET rest == ParseBlock(text, L, st.next, ind)
               IN IF ~rest.ok THEN Err
                  ELSE OkN(<<st.node>> \o rest.nodes, rest.next)

\* ast.parse: ok = FALSE stands for SyntaxError, nodes is Module.body
Parse(text) == ParseBlock(text, LinesFrom(text, 1), 1, 0)

\* ast.get_source_segment(text, node)
SourceSegment(text, node) == SubSeq(text, node.start, node.end)

\* -------------------------------------------------------------- ast.dump
dFunctionDef == <<"F","u","n","c","t","i","o","n","D","e","f","(","n","a","m","e","=","'">>
dArguments == <<"'",","," ","a","r","g","s","=","a","r","g","u","m","e","n","t","s","(","p","o","s","o","n","l","y","a","r","g","s","=","[","]",","," ","a","r","g","s","=","[">>
dArg == <<"a","r","g","(","a","r","g","=","'">>
dArgEnd == <<"'",")">>
dArgumentsEnd == <<"]",","," ","k","w","o","n","l","y","a","r","g","s","=","[","]",","," ","k","w","_","d","e","f","a","u","l","t","s","=","[","]",","," ","d","e","f","a","u","l","t","s","=","[","]",")",","," ","b","o","d","y","=","[">>
dClassDef == <<"C","l","a","s","s","D","e","f","(","n","a","m","e","=","'">>
dClassBody == <<"'",","," ","b","a","s","e","s","=","[","]",","," ","k","e","y","w","o","r","d","s","=","[","]",","," ","b","o","d","y","=","[">>
dDecoratorList == <<"]",","," ","d","e","c","o","r","a","t","o","r","_","l","i","s","t","=","[">>
dDefEnd == <<"]",")">>
dPass == <<"P","a","s","s","(",")">>
dExpr == <<"E","x","p","r","(","v","a","l","u","e","=">>
dClose == <<")">>
dName == <<"N","a","m","e","(","i","d","=","'">>
dLoad == <<"'",","," ","c","t","x","=","L","o","a","d","(",")",")">>
dAttribute == <<"A","t","t","r","i","b","u","t","e","(","v","a","l","u","e","=">>
dAttr == <<","," ","a","t","t","r","=","'">>
dConstant == <<"C","o","n","s","t","a","n","t","(","v","a","l","u","e","=","'">>
dImport == <<"I","m","p","o","r","t","(","n","a","m","e","s","=","[">>
dImportFrom == <<"I","m","p","o","r","t","F","r","o","m","(","m","o","d","u","l","e","=","'">>
dFromNames == <<"'",","," ","n","a","m","e","s","=","[">>
dLevel == <<"]",","," ","l","e","v","e","l","=">>
dAlias == <<"a","l","i","a","s","(","n","a","m","e","=","'">>
dAsname == <<"'",","," ","a","s","n","a","m","e","=","'">>
dSep == <<","," ">>
Spell(s) ==
  CASE s = "os" -> <<"o","s">>
    [] s = "numpy" -> <<"n","u","m","p","y">>
    [] s = "np" -> <<"n","p">>
    [] s = "json" -> <<"j","s","o","n">>
    [] s = "f" -> <<"f">>
    [] s = "g" -> <<"g">>
    [] s = "k" -> <<"k">>
    [] s = "z" -> <<"z">>
    [] s = "C" -> <<"C">>
    [] s = "D" -> <<"D">>
    [] s = "m" -> <<"m">>
    [] s = "self" -> <<"s","e","l","f">>
    [] s = "this" -> <<"t","h","i","s">>
    [] s = "x" -> <<"x">>
    [] s = "y" -> <<"y">>
    [] s = "deco" -> <<"d","e","c","o">>
    [] s = "zeros" -> <<"z","e","r","o","s">>
    [] OTHER -> <<"?">>

DumpAlias(n) ==
  dAlias \o Spell(n.name)
         \o (IF n.asname # "" THEN dAsname \o Spell(n.asname) ELSE <<>>) \o dArgEnd

RECURSIVE DumpDecorators(_)
DumpDecorators(ds) ==
  IF ds = <<>> THEN <<>>
  ELSE dName \o Spell(Head(ds).id) \o dLoad
       \o (IF Len(ds) > 1 THEN dSep ELSE <<>>) \o DumpDecorators(Tail(ds))

RECURSIVE Dump(_)
RECURSIVE DumpList(_)

\* ast.dump(n) of a statement node
Dump(n) ==
  IF n.type = "FunctionDef"
    THEN dFunctionDef \o Spell(n.name) \o dArguments
         \o (IF n.arg # "" THEN dArg \o Spell(n.arg) \o dArgEnd ELSE <<>>)
         \o dArgumentsEnd \o DumpList(n.body) \o dDecoratorList
         \o DumpDecorators(n.decorator_list) \o dDefEnd
  ELSE IF n.type = "ClassDef"
    THEN dClassDef \o Spell(n.name) \o dClassBody \o DumpList(n.body) \o dDecoratorList
         \o DumpDecorators(n.decorator_list) \o dDefEnd
  ELSE IF n.type = "Pass" THEN dPass
  ELSE IF n.type = "Name" THEN dExpr \o dName \o Spell(n.id) \o dLoad \o dClose
  ELSE IF n.type = "Attribute"
    THEN dExpr \o dAttribute \o dName \o Spell(n.id) \o dLoad \o dAttr \o Spell(n.attr)
         \o dLoad \o dClose
  ELSE IF n.type = "Constant" THEN dExpr \o dConstant \o Spell(n.id) \o dArgEnd \o dClose
  ELSE IF n.type = "Import" THEN dImport \o DumpAlias(n) \o dDefEnd
  ELSE dImportFrom \o Spell(n.module) \o dFromNames \o DumpAlias(n) \o dLevel
       \o <<IF n.level = 1 THEN "1" ELSE "0">> \o dClose

DumpList(ns) ==
  IF ns = <<>> THEN <<>>
  ELSE Dump(Head(ns)) \o (IF Len(ns) > 1 THEN dSep ELSE <<>>) \o DumpList(Tail(ns))

\* ast.walk(node), statement nodes only: the expression, argument and alias
\* nodes it also yields have dumps that are substrings of their statement's
RECURSIVE Walk(_)
RECURSIVE WalkList(_)
Walk(n) == <<n>> \o WalkList(n.body)
WalkList(ns) == IF ns = <<>> THEN <<>> ELSE Walk(Head(ns)) \o WalkList(Tail(ns))

\* ------------------------------------------------------ the node visitor
\* NodeVisitor.visit over a statement list: visit_X appends the node, then
\* generic_visit descends into its body (pre-order)
RECURSIVE Collect(_, _)
Collect(ns, types) ==
  IF ns = <<>> THEN <<>>
  ELSE LET n == Head(ns)
       IN (IF n.type \in types THEN <<n>> ELSE <<>>)
          \o Collect(n.body, types) \o Collect(Tail(ns), types)

\* variant: the node is put in front of the list instead of appended
RECURSIVE Reverse(_)
Reverse(q) == IF q = <<>> THEN <<>> ELSE Append(Reverse(Tail(q)), Head(q))
visit_FunctionDef_front(body) == Reverse(Collect(body, {"FunctionDef"}))

visit_FunctionDef(body) == Collect(body, {"FunctionDef"})
visit_ClassDef(body) == Collect(body, {"ClassDef"})
visit_Import(body) == Collect(body, {"Import", "ImportFrom"})

\* ------------------------------------------------- _get_imports_for_node
\* any(alias.name in ast.dump(n) for n in ast.walk(node))
AliasUsed(imp, node) ==
  \E i \in 1..Len(Walk(node)) : IsSubstring(Spell(imp.name), Dump(Walk(node)[i]))

RECURSIVE UsedImports(_, _, _)
UsedImports(imps, node, disk) ==
  IF imps = <<>> THEN <<>>
  ELSE (IF AliasUsed(Head(imps), node) THEN <<SourceSegment(disk, Head(imps))>> ELSE <<>>)
       \o UsedImports(Tail(imps), node, disk)

\* disk is the text of the script on disk, which the method reads again
_get_imports_for_node(imps, node, disk) ==
  JoinLines(UsedImports(imps, node, disk)) \o <<NL>>

\* ------------------------------ _create_function_file / _create_class_file
RECURSIVE DecoratorLines(_, _)
DecoratorLines(ds, script_code) ==
  IF ds = <<>> THEN <<>>
  ELSE SourceSegment(script_code, Head(ds)) \o <<NL>> \o DecoratorLines(Tail(ds), script_code)

\* func_code (class_code) as built before the write
DefinitionCode(imps, node, script_code, disk) ==
  _get_imports_for_node(imps, node, disk)
    \o DecoratorLines(node.decorator_list, script_code)
    \o SourceSegment(script_code, node)

\* what func_file.write (class_file.write) receives
DefinitionFileContent(imps, node, script_code, disk) ==
  _get_imports_for_node(imps, node, disk) \o DefinitionCode(imps, node, script_code, disk)

FileName(name) == <<name, ".py">>

\* ---------------------------------------------- _update_original_script
ImportStatement(name) == <<"from", ".", name, "import", name, NL>>

RECURSIVE ReplaceDefs(_, _, _)
ReplaceDefs(defs, script_code, new_script_code) ==
  IF defs = <<>> THEN new_script_code
  ELSE ReplaceDefs(Tail(defs), script_code,
                   StrReplace(new_script_code, SourceSegment(script_code, Head(defs)),
                              ImportStatement(Head(defs).name)))

NewScriptCode(funcs, clss, script_code) ==
  ReplaceDefs(clss, script_code, ReplaceDefs(funcs, script_code, script_code))

\* ------------------------- _handle_method_attributes / _create_method_file
_handle_method_attributes(method_node) ==
  { Walk(method_node)[i].attr :
      i \in { j \in 1..Len(Walk(method_node)) :
                /\ Walk(method_node)[j].type = "Attribute"
                /\ Walk(method_node)[j].id = "self" } }

\* list(attributes): the members of a set in the iteration order perm
AttrNames == {"x", "y", "zeros"}
Perms == { p \in [1..Cardinality(AttrNames) -> AttrNames] :
             \A a \in AttrNames : \E i \in DOMAIN p : p[i] = a }
ListOf(S, perm) == SelectSeq(perm, LAMBDA a : a \in S)

\* ', '.join(['self'] + list(attributes))
RECURSIVE CommaJoin(_)
CommaJoin(names) ==
  IF names = <<>> THEN <<>>
  ELSE IF Len(names) = 1 THEN names
  ELSE <<Head(names), ",">> \o CommaJoin(Tail(names))

MethodArgs(method, perm) ==
  CommaJoin(<<"self">> \o ListOf(_handle_method_attributes(method), perm))

\* str.split('\n')
RECURSIVE SplitNL(_)
SplitNL(s) ==
  LET e == LineEnd(s, 1)
  IN IF e > Len(s) THEN <<s>>
     ELSE <<SubSeq(s, 1, e - 1)>> \o SplitNL(SubSeq(s, e + 1, Len(s)))

RECURSIVE IndentLines(_)
IndentLines(ls) ==
  IF ls = <<>> THEN <<>> ELSE <<IND>> \o Head(ls) \o <<NL>> \o IndentLines(Tail(ls))

RECURSIVE _get_imports_code(_, _)
_get_imports_code(imps, disk) ==
  IF imps = <<>> THEN <<>>
  ELSE SourceSegment(disk, Head(imps)) \o <<NL>> \o _get_imports_code(Tail(imps), disk)

\* new_method_code of _create_method_file
StandaloneMethodCode(method, script_code, perm) ==
  <<"def", method.name, "(">> \o MethodArgs(method, perm) \o <<")", ":", NL>>
    \o IndentLines(Tail(SplitNL(SourceSegment(script_code, method))))

MethodFileContent(imps, method, script_code, disk, perm) ==
  _get_imports_code(imps, disk) \o StandaloneMethodCode(method, script_code, perm)

MethodFileName(class_name, method_name) == <<class_name, "_", method_name, ".py">>

\* ------------------------------------------------- _update_class_methods
RECURSIVE IndentedDecorators(_, _)
IndentedDecorators(ds, script_code) ==
  IF ds = <<>> THEN <<>>
  ELSE <<IND>> \o SourceSegment(script_code, Head(ds)) \o <<NL>>
       \o IndentedDecorators(Tail(ds), script_code)

\* new_method_code of _update_class_methods: the in-class replacement
MethodStub(method, script_code, perm) ==
  IndentedDecorators(method.decorator_list, script_code)
    \o <<IND, "def", method.name, "(">> \o MethodArgs(method, perm)
    \o <<")", ":", NL, IND, IND, "pass", NL>>

DirectMethods(class_node) == SelectSeq(class_node.body, LAMBDA n : n.type = "FunctionDef")

RECURSIVE ReplaceMethods(_, _, _, _)
ReplaceMethods(methods, script_code, new_class_code, perm) ==
  IF methods = <<>> THEN new_class_code
  ELSE ReplaceMethods(Tail(methods), script_code,
                      StrReplace(new_class_code, SourceSegment(script_code, Head(methods)),
                                 MethodStub(Head(methods), script_code, perm)),
                      perm)

_update_class_methods(class_node, script_code, perm) ==
  ReplaceMethods(DirectMethods(class_node), script_code,
                 SourceSegment(script_code, class_node), perm)

\* the method files the loop writes, later writes over earlier ones
RECURSIVE WriteMethodFiles(_, _, _, _, _, _)
WriteMethodFiles(files, imps, class_node, methods, script_code, perm) ==
  IF methods = <<>> THEN files
  ELSE WriteMethodFiles(
         (MethodFileName(class_node.name, Head(methods).name)
            :> MethodFileContent(imps, Head(methods), script_code, script_code, perm))
           @@ files,
         imps, class_node, Tail(methods), script_code, perm)

\* ----------------------------------------------------------- _is_git_repo
\* levels: 0 is the script path itself, 1..Depth its ancestors, nearest
\* first; the result is the first level that holds a .git entry, -1 for None
\* variant: the walk ends on the last ancestor instead of None
_is_git_repo_last(markers) ==
  LET found == { l \in 0..Depth : l \in markers }
  IN IF found = {} THEN Depth ELSE Min(found)

_is_git_repo(markers) ==
  LET found == { l \in 0..Depth : l \in markers }
  IN IF found = {} THEN -1 ELSE Min(found)

\* ------------------------------------------------------------------ state
VARIABLES
  script,        \* text of the file at script_path, MissingFile when deleted
  dirs,          \* the directories the tool can touch: existence and files
  outputDir,     \* which directory self.output_dir names
  gitMarkers,    \* the levels of the ancestor chain that hold a .git entry
  branch,        \* the branch split-functions exists
  committed,     \* _commit_changes has committed in this run
  mode,          \* how this run was started: "main", "api" or "methods"
  pc,            \* position of the running invocation
  exitCode,      \* process exit status, -1 while running
  script_code,   \* the text read by split_functions
  functions, classes, imports,   \* the visitor's lists
  i,             \* index of the running for loop
  new_class_code,\* value returned by _update_class_methods
  run,           \* number of the current invocation
  start,         \* script, dirs and branch when the current invocation began
  written,       \* names of the files written by this invocation, in order
  srcWrites,     \* writes of the source file by this invocation
  splitDone,     \* split_functions returned normally in this invocation
  first          \* script and output directory after the first invocation

vars == <<script, dirs, outputDir, gitMarkers, branch, committed, mode, pc, exitCode,
          script_code, functions, classes, imports, i, new_class_code, run, start,
          written, srcWrites, splitDone, first>>

MissingFile == <<"<missing>">>
EmptyFiles == [k \in {} |-> <<>>]
NoDir == [exists |-> FALSE, files |-> EmptyFiles]
EmptyDir == [exists |-> TRUE, files |-> EmptyFiles]
StaleDir == [exists |-> TRUE, files |-> (<<"old", ".py">> :> <<"pass", NL>>)]

DirNames == {"script_dir", "given", "parent"}
Modes == {"main", "api", "methods"}

EntryPc(m) == IF m = "main" THEN "main" ELSE IF m = "api" THEN "split" ELSE "decompose"

Init ==
  /\ script \in Programs
  /\ \E pre \in BOOLEAN :
       dirs = [d \in DirNames |-> IF d = "parent" THEN EmptyDir
                                  ELSE IF pre THEN StaleDir ELSE NoDir]
  /\ outputDir \in DirNames
  /\ mode \in Modes
  /\ gitMarkers \in SUBSET (1..Depth)
  /\ (mode # "main" => gitMarkers = {})
  /\ (mode = "methods" => outputDir = "script_dir")
  /\ branch = FALSE
  /\ committed = FALSE
  /\ pc = EntryPc(mode)
  /\ exitCode = -1
  /\ script_code = <<>>
  /\ functions = <<>> /\ classes = <<>> /\ imports = <<>>
  /\ i = 1
  /\ new_class_code = <<>>
  /\ run = 1
  /\ start = [script |-> script, dirs |-> dirs, branch |-> branch]
  /\ written = <<>>
  /\ srcWrites = 0
  /\ splitDone = FALSE
  /\ first = [script |-> <<>>, dirs |-> dirs]

fsVars == <<script, dirs>>
cfgVars == <<outputDir, gitMarkers, mode, run, start, first>>
splitterVars == <<script_code, functions, classes, imports, i, new_class_code>>
ghostVars == <<written, srcWrites, splitDone>>

\* sys.exit(code), or the interpreter ending
Exit(code) == pc' = "exited" /\ exitCode' = code

\* ------------------------------------------------------------- __main__
\* git_repo_path is None: print and sys.exit(1)
MainNotARepo ==
  /\ pc = "main"
  /\ _is_git_repo(gitMarkers) = -1
  /\ Exit(1)
  /\ UNCHANGED <<fsVars, cfgVars, splitterVars, ghostVars, branch, committed>>

\* os.chdir, _create_git_branch: git checkout -b split-functions succeeds
MainCreateBranch ==
  /\ pc = "main"
  /\ _is_git_repo(gitMarkers) # -1
  /\ ~branch
  /\ branch' = TRUE
  /\ pc' = "split"
  /\ UNCHANGED <<fsVars, cfgVars, splitterVars, ghostVars, committed, exitCode>>

\* _create_git_branch: check_call raises (the branch exists, or git fails)
MainCreateBranchFails ==
  /\ pc = "main"
  /\ _is_git_repo(gitMarkers) # -1
  /\ Exit(1)
  /\ UNCHANGED <<fsVars, cfgVars, splitterVars, ghostVars, branch, committed>>

\* _commit_changes after split_functions returned
Commit ==
  /\ pc = "commit"
  /\ committed' = TRUE
  /\ Exit(0)
  /\ UNCHANGED <<fsVars, cfgVars, splitterVars, ghostVars, branch>>

CommitFails ==
  /\ pc = "commit"
  /\ Exit(1)
  /\ UNCHANGED <<fsVars, cfgVars, splitterVars, ghostVars, branch, committed>>

\* ------------------------------------------------------- split_functions
\* shutil.rmtree(d) when d exists, then os.makedirs(d).  Removing the parent
\* directory of the script removes the script and the script directory too.
\* variant: the directory is created when absent and never removed
RecreatedDirs_keep(ds, d) == [ds EXCEPT ![d].exists = TRUE]

RecreatedDirs(ds, d) ==
  [x \in DirNames |->
     IF x = d THEN EmptyDir
     ELSE IF d = "parent" /\ x = "script_dir" THEN NoDir
     ELSE ds[x]]

ScriptAfterRecreate(s, d) == IF d = "parent" THEN MissingFile ELSE s

RecreateOutputDir ==
  /\ pc = "split"
  /\ dirs' = RecreatedDirs(dirs, outputDir)
  /\ script' = ScriptAfterRecreate(script, outputDir)
  /\ pc' = "read"
  /\ UNCHANGED <<cfgVars, splitterVars, ghostVars, branch, committed, exitCode>>

\* rmtree or makedirs raises: except Exception -> sys.exit(1)
RecreateOutputDirFails ==
  /\ pc = "split"
  /\ Exit(1)
  /\ UNCHANGED <<fsVars, cfgVars, splitterVars, ghostVars, branch, committed>>

ReadScript ==
  /\ pc = "read"
  /\ script # MissingFile
  /\ script_code' = script
  /\ pc' = "parse"
  /\ UNCHANGED <<fsVars, cfgVars, functions, classes, imports, i, new_class_code,
                 ghostVars, branch, committed, exitCode>>

\* open or read raises (the file is gone, or cannot be read)
ReadScriptFails ==
  /\ pc = "read"
  /\ Exit(1)
  /\ UNCHANGED <<fsVars, cfgVars, splitterVars, ghostVars, branch, committed>>

\* the loop that comes after position p of split_functions
PhaseAfter(p, funcs, clss) ==
  IF p = "parse" /\ funcs # <<>> THEN "functions"
  ELSE IF p \in {"parse", "functions"} /\ clss # <<>> THEN "classes"
  ELSE "update"

\* tree = ast.parse(script_code); self.visit(tree)
ParseAndVisit ==
  /\ pc = "parse"
  /\ Parse(script_code).ok
  /\ functions' = functions \o visit_FunctionDef(Parse(script_code).nodes)
  /\ classes' = classes \o visit_ClassDef(Parse(script_code).nodes)
  /\ imports' = imports \o visit_Import(Parse(script_code).nodes)
  /\ i' = 1
  /\ pc' = PhaseAfter("parse", functions', classes')
  /\ UNCHANGED <<fsVars, cfgVars, script_code, new_class_code, ghostVars, branch,
                 committed, exitCode>>

\* ast.parse raises SyntaxError
ParseFails ==
  /\ pc = "parse"
  /\ ~Parse(script_code).ok
  /\ Exit(1)
  /\ UNCHANGED <<fsVars, cfgVars, splitterVars, ghostVars, branch, committed>>

WriteFile(ds, d, name, content) ==
  [ds EXCEPT ![d].files = (name :> content) @@ ds[d].files]

\* one iteration of `for func in self.functions`
CreateFunctionFile ==
  /\ pc = "functions"
  /\ dirs[outputDir].exists
  /\ dirs' = WriteFile(dirs, outputDir, FileName(functions[i].name),
                       DefinitionFileContent(imports, functions[i], script_code, script))
  /\ written' = Append(written, FileName(functions[i].name))
  /\ i' = IF i < Len(functions) THEN i + 1 ELSE 1
  /\ pc' = IF i < Len(functions) THEN "functions"
           ELSE PhaseAfter("functions", functions, classes)
  /\ UNCHANGED <<script, cfgVars, script_code, functions, classes, imports,
                 new_class_code, srcWrites, splitDone, branch, committed, exitCode>>

\* one iteration of `for cls in self.classes`
CreateClassFile ==
  /\ pc = "classes"
  /\ dirs[outputDir].exists
  /\ dirs' = WriteFile(dirs, outputDir, FileName(classes[i].name),
                       DefinitionFileContent(imports, classes[i], script_code, script))
  /\ written' = Append(written, FileName(classes[i].name))
  /\ i' = IF i < Len(classes) THEN i + 1 ELSE 1
  /\ pc' = IF i < Len(classes) THEN "classes" ELSE "update"
  /\ UNCHANGED <<script, cfgVars, script_code, functions, classes, imports,
                 new_class_code, srcWrites, splitDone, branch, committed, exitCode>>

\* open(.., 'w') of a definition file raises: sys.exit(1)
CreateFileFails ==
  /\ pc \in {"functions", "classes"}
  /\ Exit(1)
  /\ UNCHANGED <<fsVars, cfgVars, splitterVars, ghostVars, branch, committed>>

\* _update_original_script, then split_functions returns
UpdateOriginalScript ==
  /\ pc = "update"
  /\ script' = NewScriptCode(functions, classes, script_code)
  /\ srcWrites' = srcWrites + 1
  /\ splitDone' = TRUE
  /\ IF mode = "main" THEN pc' = "commit" /\ exitCode' = exitCode ELSE Exit(0)
  /\ UNCHANGED <<dirs, cfgVars, splitterVars, written, branch, committed>>

\* open(self.script_path, 'w') raises: sys.exit(1)
UpdateOriginalScriptFails ==
  /\ pc = "update"
  /\ Exit(1)
  /\ UNCHANGED <<fsVars, cfgVars, splitterVars, ghostVars, branch, committed>>

\* ------------------------------------------------- the method decomposer
\* a caller reads and parses the script and runs the visitor over the tree
VisitForMethods ==
  /\ pc = "decompose"
  /\ script_code' = script
  /\ functions' = visit_FunctionDef(Parse(script).nodes)
  /\ classes' = visit_ClassDef(Parse(script).nodes)
  /\ imports' = visit_Import(Parse(script).nodes)
  /\ pc' = "visited"
  /\ UNCHANGED <<fsVars, cfgVars, i, new_class_code, ghostVars, branch, committed,
                 exitCode>>

\* _update_class_methods(classes[c], script_code) with script_dir present
UpdateClassMethods(c, perm) ==
  /\ pc = "visited"
  /\ dirs["script_dir"].exists \/ DirectMethods(classes[c]) = <<>>
  /\ dirs' = [dirs EXCEPT !["script_dir"].files =
                WriteMethodFiles(@, imports, classes[c], DirectMethods(classes[c]),
                                 script_code, perm)]
  /\ written' = written \o [k \in 1..Len(DirectMethods(classes[c])) |->
                              MethodFileName(classes[c].name,
                                             DirectMethods(classes[c])[k].name)]
  /\ new_class_code' = _update_class_methods(classes[c], script_code, perm)
  /\ i' = c
  /\ Exit(0)
  /\ UNCHANGED <<script, cfgVars, script_code, functions, classes, imports, srcWrites,
                 splitDone, branch, committed>>

\* the first open(method_file_path, 'w') raises: script_dir does not exist
UpdateClassMethodsFails(c) ==
  /\ pc = "visited"
  /\ ~dirs["script_dir"].exists
  /\ DirectMethods(classes[c]) # <<>>
  /\ Exit(1)
  /\ UNCHANGED <<fsVars, cfgVars, splitterVars, ghostVars, branch, committed>>

\* ------------------------------------------------------ a second invocation
\* the tool is started again, as a new process, on the same paths
RunAgain(m) ==
  /\ pc = "exited"
  /\ exitCode = 0
  /\ mode # "methods"
  /\ run < MaxRuns
  /\ run' = run + 1
  /\ mode' = m
  /\ pc' = EntryPc(m)
  /\ exitCode' = -1
  /\ first' = [script |-> script, dirs |-> dirs]
  /\ start' = [script |-> script, dirs |-> dirs, branch |-> branch]
  /\ script_code' = <<>>
  /\ functions' = <<>> /\ classes' = <<>> /\ imports' = <<>>
  /\ i' = 1
  /\ new_class_code' = <<>>
  /\ written' = <<>>
  /\ srcWrites' = 0
  /\ splitDone' = FALSE
  /\ committed' = FALSE
  /\ UNCHANGED <<fsVars, outputDir, gitMarkers, branch>>

Next ==
  \/ MainNotARepo
  \/ MainCreateBranch
  \/ MainCreateBranchFails
  \/ Commit
  \/ CommitFails
  \/ RecreateOutputDir
  \/ RecreateOutputDirFails
  \/ ReadScript
  \/ ReadScriptFails
  \/ ParseAndVisit
  \/ ParseFails
  \/ CreateFunctionFile
  \/ CreateClassFile
  \/ CreateFileFails
  \/ UpdateOriginalScript
  \/ UpdateOriginalScriptFails
  \/ VisitForMethods
  \/ \E c \in 1..Len(classes), perm \in Perms : UpdateClassMethods(c, perm)
  \/ \E c \in 1..Len(classes) : UpdateClassMethodsFails(c)
  \/ \E m \in {"main", "api"} : RunAgain(m)

Spec == Init /\ [][Next]_vars

\* ------------------------------------------------------------- properties
Range(q) == { q[k] : k \in DOMAIN q }

Defs == functions \o classes

\* the split of the current invocation has run to its end
SplitCompleted == splitDone /\ mode # "methods"

OutFiles == dirs[outputDir].files

\* the function and class definitions that are direct children of the module
TopLevelDefs(text) ==
  SelectSeq(Parse(text).nodes, LAMBDA n : n.type \in {"FunctionDef", "ClassDef"})

TopLevelImports(text) ==
  SelectSeq(Parse(text).nodes, LAMBDA n : n.type \in {"Import", "ImportFrom"})

NamesOf(q) == { q[k].name : k \in DOMAIN q }

\* C1: after a completed split of a file whose top-level definitions have
\* unique names, the output directory holds exactly one file <name>.py per
\* top-level function or class, and none for a nested definition.
C1_OneFilePerTopLevelDefinition ==
  (SplitCompleted
     /\ Cardinality(NamesOf(TopLevelDefs(script_code))) = Len(TopLevelDefs(script_code)))
  => /\ DOMAIN OutFiles = { FileName(nm) : nm \in NamesOf(TopLevelDefs(script_code)) }
     /\ Cardinality(DOMAIN OutFiles) = Len(TopLevelDefs(script_code))

\* the definition whose file the running loop iteration writes
CurrentDef == IF pc = "functions" THEN functions[i] ELSE classes[i]

\* C2: the content written for a definition is the resolved import prologue
\* once, the decorators' text each followed by a line break, and the
\* definition's span text; nothing else.
C2_FileIsPrologueDecoratorsSpan ==
  [][(pc \in {"functions", "classes"} /\ Len(written') > Len(written))
       => dirs'[outputDir].files[Last(written')]
            = _get_imports_for_node(imports, CurrentDef, script_code)
                \o DecoratorLines(CurrentDef.decorator_list, script_code)
                \o SourceSegment(script_code, CurrentDef)]_vars

\* the text with the span of each definition of ds replaced, at its own
\* position, by that definition's import line
RECURSIVE RewriteSpans(_, _, _)
RewriteSpans(text, ds, p) ==
  IF p > Len(text) THEN <<>>
  ELSE IF \E k \in DOMAIN ds : ds[k].start = p
    THEN LET k == CHOOSE k \in DOMAIN ds : ds[k].start = p
         IN ImportStatement(ds[k].name) \o RewriteSpans(text, ds, ds[k].end + 1)
    ELSE <<text[p]>> \o RewriteSpans(text, ds, p + 1)

\* C3: the text written back differs from the original only inside the spans
\* of the extracted definitions, each replaced at its position by its import
\* line (stated for files whose extracted definitions are all top-level).
C3_OnlyRecordedSpansChange ==
  (SplitCompleted /\ Len(Defs) = Len(TopLevelDefs(script_code)))
  => script = RewriteSpans(script_code, Defs, 1)

\* the identifiers that occur in the subtree of a node
IdentifiersOf(n) ==
  LET w == Walk(n)
  IN UNION { ( (IF w[k].type \in {"FunctionDef", "ClassDef"}
                  THEN {w[k].name} \cup { w[k].decorator_list[j].id :
                                            j \in DOMAIN w[k].decorator_list }
                  ELSE {})
               \cup (IF w[k].arg # "" THEN {w[k].arg} ELSE {})
               \cup (IF w[k].type \in {"Name", "Attribute"} THEN {w[k].id} ELSE {})
               \cup (IF w[k].type = "Attribute" THEN {w[k].attr} ELSE {}) ) :
             k \in DOMAIN w }

\* the name an import statement binds
BoundName(imp) == IF imp.asname # "" THEN imp.asname ELSE imp.name

\* C4: an import statement's text is in a definition's prologue if and only
\* if the name it binds occurs as an identifier in the definition's subtree.
C4_PrologueIffBoundNameUsed ==
  pc \in {"functions", "classes", "update"}
  => \A d \in DOMAIN Defs : \A m \in DOMAIN imports :
       (SourceSegment(script_code, imports[m])
          \in Range(UsedImports(imports, Defs[d], script_code)))
       <=> (BoundName(imports[m]) \in IdentifiersOf(Defs[d]))

\* C5: after the parse pass the catalog is exactly the import statements that
\* are direct children of the module, in order of appearance.
C5_CatalogIsTopLevelImports ==
  pc \in {"functions", "classes", "update"} => imports = TopLevelImports(script_code)

\* the definition of that name that comes last in the source
LastInSource(nm) ==
  LET c == { k \in DOMAIN Defs : Defs[k].name = nm }
  IN Defs[CHOOSE k \in c : \A j \in c : Defs[j].start <= Defs[k].start]

\* C6 as stated: files are written in source order whatever the kind, so
\* <name>.py holds the definition of that name that comes last in the source.
C6_LastInSourceWins ==
  SplitCompleted
  => \A nm \in NamesOf(Defs) :
       OutFiles[FileName(nm)]
         = DefinitionFileContent(imports, LastInSource(nm), script_code, script_code)

\* the definition of that name that is written last: the last class of the
\* name when there is one, else the last function of the name
LastWritten(nm) ==
  LET c == { k \in DOMAIN Defs : Defs[k].name = nm }
  IN Defs[CHOOSE k \in c : \A j \in c : j <= k]

SourceOrdered(q) == \A a, b \in DOMAIN q : a < b => q[a].start < q[b].start

\* C6 as amended: the function files are written first, in source order, then
\* the class files, in source order; <name>.py holds the last one written.
C6_LastWrittenWins ==
  SplitCompleted
  => /\ SourceOrdered(functions) /\ SourceOrdered(classes)
     /\ written = [k \in DOMAIN Defs |-> FileName(Defs[k].name)]
     /\ \A nm \in NamesOf(Defs) :
          OutFiles[FileName(nm)]
            = DefinitionFileContent(imports, LastWritten(nm), script_code, script_code)

\* a class and a later function of the same name were both extracted
C6_Witness ==
  /\ SplitCompleted
  /\ \E f \in DOMAIN functions : \E c \in DOMAIN classes :
       functions[f].name = classes[c].name /\ classes[c].start < functions[f].start

\* C7: the source file is written at most once and only after every
\* definition file; a run that ends before that write exits non-zero with the
\* source file's content unchanged, and the files it wrote remain.
C7_SourceWrittenLastOrUntouched ==
  mode # "methods"
  => /\ srcWrites <= 1
     /\ (srcWrites = 1 => Len(written) = Len(Defs))
     /\ (pc = "exited" /\ srcWrites = 0 => exitCode # 0 /\ script = start.script)
     /\ (dirs[outputDir].exists => Range(written) \subseteq DOMAIN OutFiles)

\* C8 as stated: after a second split of an already split file the definition
\* files of the first run still exist with the same content and the source
\* text is that of the first run.
C8_SecondRunKeepsFiles ==
  (run >= 2 /\ SplitCompleted)
  => /\ \A nm \in DOMAIN first.dirs[outputDir].files :
          nm \in DOMAIN OutFiles /\ OutFiles[nm] = first.dirs[outputDir].files[nm]
     /\ script = first.script

\* C8 as amended: a second split recreates the output directory, so it holds
\* only the files the second run wrote; when the rewritten source has no
\* function or class definition left, the directory ends empty and the source
\* text is that of the first run.
C8_SecondRunRecreatesDirectory ==
  (run >= 2 /\ SplitCompleted)
  => /\ DOMAIN OutFiles = Range(written)
     /\ (Collect(Parse(first.script).nodes, {"FunctionDef", "ClassDef"}) = <<>>
           => OutFiles = EmptyFiles /\ script = first.script)

\* a second split ran on a source the first run left without definitions,
\* after the first run had produced files
C8_Witness ==
  /\ run >= 2 /\ SplitCompleted
  /\ DOMAIN first.dirs[outputDir].files # {}
  /\ Collect(Parse(first.script).nodes, {"FunctionDef", "ClassDef"}) = <<>>

\* C9: without a .git entry at the source path or an ancestor the invocation
\* exits non-zero and creates no branch, leaves the directories and the source
\* file as they were and writes no file; the commit runs only after
\* split_functions has returned.
C9_RefusedOutsideRepository ==
  /\ (mode = "main" /\ gitMarkers = {})
       => /\ pc \in {"main", "exited"}
          /\ (pc = "exited" => exitCode = 1)
          /\ branch = start.branch
          /\ dirs = start.dirs
          /\ script = start.script
          /\ written = <<>>
          /\ ~committed
  /\ (pc = "commit" \/ committed => splitDone)

\* the entry point has refused a script outside any repository
C9_Witness == mode = "main" /\ gitMarkers = {} /\ pc = "exited" /\ exitCode = 1

\* the names accessed through the method's first parameter
FirstParamAttributes(method) ==
  { Walk(method)[k].attr :
      k \in { j \in 1..Len(Walk(method)) :
                /\ Walk(method)[j].type = "Attribute"
                /\ Walk(method)[j].id = method.arg } }

\* C10: for every direct method of the decomposed class the discovered
\* attributes are the names accessed through its first parameter, whatever
\* that parameter is called, and the standalone callable takes that parameter
\* followed by each discovered attribute once, after the full import catalog.
C10_AttributesOfFirstParameter ==
  (mode = "methods" /\ pc = "exited" /\ exitCode = 0)
  => \A k \in DOMAIN DirectMethods(classes[i]) :
       LET method == DirectMethods(classes[i])[k]
       IN /\ _handle_method_attributes(method) = FirstParamAttributes(method)
          /\ \E perm \in Perms :
               dirs["script_dir"].files[MethodFileName(classes[i].name, method.name)]
                 = _get_imports_code(imports, script_code)
                     \o <<"def", method.name, "(">>
                     \o CommaJoin(<<method.arg>> \o ListOf(FirstParamAttributes(method), perm))
                     \o <<")", ":", NL>>
                     \o IndentLines(Tail(SplitNL(SourceSegment(script_code, method))))
====
